---------------------------- MODULE Spec2Model ----------------------------
(***************************************************************************)
(* FolderOut (Sigil plugin): the file-name sanitizer, the destination      *)
(* validator and run() with the content copier, as state machines.         *)
(*                                                                         *)
(* Text is a sequence of code points, so that character classes are sets   *)
(* of numbers.  A relative path is a sequence of segment names.  A         *)
(* directory tree is a function from relative file paths to the bytes of   *)
(* the file there (NoFile where there is none).                            *)
(***************************************************************************)
EXTENDS Integers, Sequences, FiniteSets

VARIABLES
    \* ---- cleanup_file_name applied to an arbitrary name, then to its result
    cpc,          \* "start" | "once" | "twice"
    name,         \* the argument
    one,          \* cleanup_file_name(name)
    two,          \* cleanup_file_name(one)
    \* ---- valid_destination applied to an arbitrary folder
    vpc,          \* "start" | "walked" | "done"
    vfiles,       \* the relative paths of the files under the folder
    files,        \* walk_folder's list, in the order os.walk produced it
    vret,         \* valid_destination's return value
    \* ---- run(bk)
    pc,           \* position in run()
    runs,         \* how many times the host has launched the plugin
    book,         \* bk._w.id_to_filepath / book_href_to_filepath with the data
    tree,         \* the files under the folder the user can select
    storedPrefs,  \* the persisted 'lastDir' preference
    dctitle,      \* run()'s locals
    foldname,
    basepath,
    foldpath,
    accepted,     \* valid_destination(foldpath) has returned True in this run
    nwritten,     \* files completely written in this run
    saved,        \* bk.savePrefs was called in this run
    ret,          \* run()'s return value
    exit,         \* which return statement of run() was taken
    tree0,        \* the tree when this run started
    prefs0,       \* the stored preference when this run started
    prevOk        \* the previous run copied into the folder and returned 0

cvars == <<cpc, name, one, two>>
vvars == <<vpc, vfiles, files, vret>>
rvars == <<pc, runs, book, tree, storedPrefs, dctitle, foldname, basepath,
           foldpath, accepted, nwritten, saved, ret, exit, tree0, prefs0,
           prevOk>>
vars  == <<cvars, vvars, rvars>>

(***************************************************************************)
(* Bounds of the model.                                                    *)
(***************************************************************************)
MaxLen == 5         \* longest name given to cleanup_file_name
MaxFiles == 2       \* most files in a folder given to valid_destination
MaxEntries == 2     \* most entries (manifest plus auxiliary) of a book
MaxRuns == 2        \* launches of the plugin in a row

\* code points the bounded names are made of: a . _ space tab : e-acute
Alphabet == {97, 46, 95, 32, 9, 58, 233}

(***************************************************************************)
(* cleanup_file_name                                                       *)
(***************************************************************************)
DOT == 46
substitute == 95

\* string.printable: digits, ascii_letters, punctuation, whitespace
string_printable == (9..13) \cup (32..126)

\* the character class of _filename_sanitize: \xae \0 \ | ? * < " : > + /
filename_sanitize_class == {174, 0, 92, 124, 63, 42, 60, 34, 58, 62, 43, 47}

\* what \s matches in a str pattern, and what str.strip() strips (Latin-1 part)
regex_whitespace == (9..13) \cup (28..32) \cup {133, 160}

RECURSIVE drop_nonprintable(_)
drop_nonprintable(s) ==
    IF s = <<>> THEN <<>>
    ELSE IF Head(s) \in string_printable
         THEN <<Head(s)>> \o drop_nonprintable(Tail(s))
         ELSE drop_nonprintable(Tail(s))

sanitize_sub(s) ==
    [i \in 1..Len(s) |-> IF s[i] \in filename_sanitize_class THEN substitute ELSE s[i]]

\* variant: one '_' for a whole run of whitespace, as r'\s+' would give
RECURSIVE whitespace_sub_runs(_)
whitespace_sub_runs(s) ==
    IF s = <<>> THEN <<>>
    ELSE IF Head(s) \in regex_whitespace
         THEN IF Len(s) > 1 /\ s[2] \in regex_whitespace
              THEN whitespace_sub_runs(Tail(s))
              ELSE <<substitute>> \o whitespace_sub_runs(Tail(s))
         ELSE <<Head(s)>> \o whitespace_sub_runs(Tail(s))

\* re.sub(r'\s', '_', one)
whitespace_sub(s) ==
    [i \in 1..Len(s) |-> IF s[i] \in regex_whitespace THEN substitute ELSE s[i]]

RECURSIVE lstrip(_)
lstrip(s) ==
    IF s # <<>> /\ Head(s) \in regex_whitespace THEN lstrip(Tail(s)) ELSE s

RECURSIVE rstrip(_)
rstrip(s) ==
    IF s # <<>> /\ s[Len(s)] \in regex_whitespace
    THEN rstrip(SubSeq(s, 1, Len(s) - 1)) ELSE s

strip(s) == rstrip(lstrip(s))

AllDots(s) == s # <<>> /\ \A i \in 1..Len(s) : s[i] = DOT

\* re.sub(r'^\.+$', '_', one): $ also matches before a final newline
only_dots_sub(s) ==
    IF AllDots(s) THEN <<substitute>>
    ELSE IF Len(s) > 1 /\ s[Len(s)] = 10 /\ AllDots(SubSeq(s, 1, Len(s) - 1))
         THEN <<substitute, 10>>
         ELSE s

\* variant: '..' replaced by '.'
RECURSIVE replace_dotdot_collapse(_)
replace_dotdot_collapse(s) ==
    IF Len(s) < 2 THEN s
    ELSE IF s[1] = DOT /\ s[2] = DOT
         THEN <<DOT>> \o replace_dotdot_collapse(SubSeq(s, 3, Len(s)))
         ELSE <<Head(s)>> \o replace_dotdot_collapse(Tail(s))

\* variant: only the first '..' replaced, as replace('..', substitute, 1)
replace_dotdot_first(s) ==
    IF \E i \in 1..(Len(s) - 1) : s[i] = DOT /\ s[i + 1] = DOT
    THEN LET i == CHOOSE j \in 1..(Len(s) - 1) :
                    /\ s[j] = DOT /\ s[j + 1] = DOT
                    /\ \A h \in 1..(j - 1) : ~(s[h] = DOT /\ s[h + 1] = DOT)
         IN  SubSeq(s, 1, i - 1) \o <<substitute>> \o SubSeq(s, i + 2, Len(s))
    ELSE s

\* one.replace('..', substitute): every occurrence, left to right, not overlapping
RECURSIVE replace_dotdot(_)
replace_dotdot(s) ==
    IF Len(s) < 2 THEN s
    ELSE IF s[1] = DOT /\ s[2] = DOT
         THEN <<substitute>> \o replace_dotdot(SubSeq(s, 3, Len(s)))
         ELSE <<Head(s)>> \o replace_dotdot(Tail(s))

\* if one.endswith('.'): one = one[:-1]+substitute
trailing_dot(s) ==
    IF s # <<>> /\ s[Len(s)] = DOT
    THEN SubSeq(s, 1, Len(s) - 1) \o <<substitute>> ELSE s

\* if len(one) > 0 and one[0:1] == '.': one = substitute+one[1:]
leading_dot(s) ==
    IF Len(s) > 0 /\ s[1] = DOT THEN <<substitute>> \o Tail(s) ELSE s

cleanup_file_name(s) ==
    leading_dot(trailing_dot(replace_dotdot(only_dots_sub(
        strip(whitespace_sub(sanitize_sub(drop_nonprintable(s))))))))

Names == UNION {[1..n -> Alphabet] : n \in 0..MaxLen}

InitClean ==
    /\ cpc = "start"
    /\ name \in Names
    /\ one = <<>>
    /\ two = <<>>

Cleanup ==
    /\ cpc = "start"
    /\ one' = cleanup_file_name(name)
    /\ cpc' = "once"
    /\ UNCHANGED <<name, two>>

CleanupAgain ==
    /\ cpc = "once"
    /\ two' = cleanup_file_name(one)
    /\ cpc' = "twice"
    /\ UNCHANGED <<name, one>>

(***************************************************************************)
(* walk_folder and valid_destination                                       *)
(***************************************************************************)
\* every order of the set S as a list
Listings(S) ==
    {l \in [1..Cardinality(S) -> S] : \A x \in S : \E i \in 1..Cardinality(S) : l[i] = x}

\* the relative paths of the files under a folder; os.walk fixes no order
walk_folder(fileset) == Listings(fileset)

\* file.split(os.sep) gives the path's segments; x in segs
In(x, segs) == \E i \in 1..Len(segs) : segs[i] = x

\* variant: the two tests joined by "or"
SuspectEither(segs) ==
    \/ In("META-INF", segs) \/ In("meta-inf", segs)
    \/ In("encryption.xml", segs) \/ In("ENCRYPTION.XML", segs)

\* the two nested ifs of the loop body
Suspect(segs) ==
    /\ In("META-INF", segs) \/ In("meta-inf", segs)
    /\ In("encryption.xml", segs) \/ In("ENCRYPTION.XML", segs)

\* variant: a folder refused on either test
RECURSIVE valid_destination_either(_)
valid_destination_either(listing) ==
    IF listing = <<>> THEN TRUE
    ELSE IF SuspectEither(Head(listing)) THEN FALSE
         ELSE valid_destination_either(Tail(listing))

\* for file in files: ... return False; return True
RECURSIVE valid_destination(_)
valid_destination(listing) ==
    IF listing = <<>> THEN TRUE
    ELSE IF Suspect(Head(listing)) THEN FALSE
         ELSE valid_destination(Tail(listing))

\* segment names of the bounded folders: the two names in three letter cases
\* each, and an unrelated name
VSegs == {"META-INF", "meta-inf", "Meta-Inf",
          "encryption.xml", "ENCRYPTION.XML", "Encryption.xml", "container.xml"}

VPaths == {<<a>> : a \in VSegs} \cup {<<a, b>> : a, b \in VSegs}

\* no file lies below another file
IsTree(S) == \A p, q \in S : ~(Len(p) < Len(q) /\ SubSeq(q, 1, Len(p)) = p)

RECURSIVE SubsetsUpTo(_, _)
SubsetsUpTo(S, n) ==
    IF n = 0 THEN {{}}
    ELSE LET smaller == SubsetsUpTo(S, n - 1)
         IN  smaller \cup {T \cup {x} : T \in smaller, x \in S}

InitValid ==
    /\ vpc = "start"
    /\ vfiles \in {S \in SubsetsUpTo(VPaths, MaxFiles) : IsTree(S)}
    /\ files = <<>>
    /\ vret = TRUE

Walk ==
    /\ vpc = "start"
    /\ files' \in walk_folder(vfiles)
    /\ vpc' = "walked"
    /\ UNCHANGED <<vfiles, vret>>

Validate ==
    /\ vpc = "walked"
    /\ vret' = valid_destination(files)
    /\ vpc' = "done"
    /\ UNCHANGED <<vfiles, files>>

(***************************************************************************)
(* run(bk) and copy_book_contents_to                                       *)
(***************************************************************************)
MinLauncherVersion == 20230315

LauncherVersions == {MinLauncherVersion - 1, MinLauncherVersion}

\* absolute paths are lists of segment names: ~, e, e/a, g (missing), n (a file)
Home == << <<126>> >>
Exports == << <<101>> >>
DestD == << <<101>>, <<97>> >>
Gone == << <<103>> >>
NotDir == << <<110>> >>
NoPath == <<>>
NoPref == <<>>

\* os.path.join(a, name): joining '' leaves a trailing separator
ospath_join(a, n) == Append(a, n)

\* a path names what it names without its trailing separator
normpath(p) == IF p # <<>> /\ p[Len(p)] = <<>> THEN SubSeq(p, 1, Len(p) - 1) ELSE p

\* os.path.exists(p) and os.path.isdir(p)
isdir(p) == normpath(p) \in {Home, Exports, DestD}

\* os.path.dirname(foldpath)
dirname(p) == SubSeq(p, 1, Len(p) - 1)

\* prefs['lastDir'] with prefs.defaults['lastDir'] = os.path.expanduser('~')
lastDir(stored) == IF stored = NoPref THEN Home ELSE stored

\* "foldername"
foldername == <<102, 111, 108, 100, 101, 114, 110, 97, 109, 101>>

TitleTag == "package.metadata.dc:title"
OtherTag == "package.metadata.dc:creator"

\* tp.endswith(".dc:title")
endswith_dctitle(tp) == tp = TitleTag

\* the for loop over bk.qp.parse_iter(): the first text under a dc:title tag
RECURSIVE first_dctitle(_)
first_dctitle(stream) ==
    IF stream = <<>> THEN foldername
    ELSE IF ~Head(stream).none /\ endswith_dctitle(Head(stream).tp)
         THEN Head(stream).txt
         ELSE first_dctitle(Tail(stream))

\* lines 166-167: if dctitle is None or dctitle == "" (txt is never None here)
title_or_fallback(title) == IF title = <<>> THEN foldername ELSE title

Tok(none, txt, tp) == [none |-> none, txt |-> txt, tp |-> tp]

\* what parse_iter may yield for the OPF: (txt, tp) of each step
OpfStreams ==
    { <<>>,
      <<Tok(TRUE, <<>>, TitleTag)>>,
      <<Tok(FALSE, <<>>, TitleTag)>>,
      <<Tok(FALSE, <<97>>, TitleTag)>>,
      <<Tok(FALSE, <<233, 233>>, TitleTag)>>,
      <<Tok(FALSE, <<97>>, OtherTag), Tok(FALSE, <<46, 97>>, TitleTag)>>,
      <<Tok(TRUE, <<>>, TitleTag), Tok(FALSE, <<97>>, TitleTag), Tok(FALSE, <<233>>, TitleTag)>> }

\* ---- the folder's files
NoFile == "<no file>"
Partial == "<partial>"
MimeText == "application/epub+zip"
MimePath == <<"mimetype">>

RelPaths == {MimePath, <<"META-INF", "container.xml">>, <<"META-INF", "encryption.xml">>}

\* what bk.readfile / bk.readotherfile return: text or bytes
DataVals == {[type |-> "str", text |-> "x"], [type |-> "bytes", raw |-> "y"]}

Entries == [rpath : RelPaths, data : DataVals]

EntryLists(n) == UNION {[1..m -> Entries] : m \in 0..n}

Books == {b \in [manifest : EntryLists(MaxEntries), aux : EntryLists(MaxEntries)] :
            Len(b.manifest) + Len(b.aux) <= MaxEntries}

Trees == [RelPaths -> {NoFile, "old"}]

FilesOf(t) == {p \in DOMAIN t : t[p] # NoFile}

\* utf8_str(p): text is encoded, bytes pass
utf8_str(p) == IF p.type = "str" THEN [type |-> "bytes", raw |-> p.text] ELSE p

\* data.encode('utf-8')
encode(text) == [type |-> "bytes", raw |-> text]

\* variant: a file that is already there is kept
write_keep_existing(t, path, bytes) ==
    IF t[path] = NoFile THEN [t EXCEPT ![path] = bytes.raw] ELSE t

\* with open(pathof(filepath),'wb') as fp: fp.write(data)
write_file(t, path, bytes) == [t EXCEPT ![path] = bytes.raw]

\* the file was opened 'wb' (created or truncated) and the write did not complete
write_interrupted(t, path) == [t EXCEPT ![path] = Partial]

InitRun ==
    /\ pc = "start"
    /\ runs = 1
    /\ book \in Books
    /\ tree \in Trees
    /\ storedPrefs \in {NoPref, Gone}
    /\ dctitle = <<>>
    /\ foldname = <<>>
    /\ basepath = <<>>
    /\ foldpath = NoPath
    /\ accepted = FALSE
    /\ nwritten = 0
    /\ saved = FALSE
    /\ ret = 0
    /\ exit = "none"
    /\ tree0 = tree
    /\ prefs0 = storedPrefs
    /\ prevOk = FALSE

locals == <<dctitle, foldname, basepath, foldpath>>
ghosts == <<tree0, prefs0, prevOk, runs, book>>

\* return <value> at the named place of run()
Return(value, where) ==
    /\ pc' = "done"
    /\ ret' = value
    /\ exit' = where

\* lines 140-142
VersionCheck ==
    /\ pc = "start"
    /\ \E v \in LauncherVersions :
          IF v < MinLauncherVersion
          THEN Return(-1, "version")
          ELSE /\ pc' = "title"
               /\ UNCHANGED <<ret, exit>>
    /\ UNCHANGED <<tree, storedPrefs, locals, accepted, nwritten, saved, ghosts>>

\* lines 145-175 (the launcher is at least 20230315 here, so the OPF is the
\* one bk.get_opfbookpath() names)
PrefsAndTitle ==
    /\ pc = "title"
    /\ \E stream \in OpfStreams :
          LET title == title_or_fallback(first_dctitle(stream))
              base  == IF isdir(lastDir(storedPrefs)) THEN lastDir(storedPrefs) ELSE Home
              fold  == cleanup_file_name(title)
              destpath == ospath_join(base, fold)
          IN  /\ dctitle' = title
              /\ foldname' = fold
              /\ basepath' = (IF isdir(destpath) THEN destpath ELSE base)
    /\ pc' = "dialog"
    /\ UNCHANGED <<tree, storedPrefs, foldpath, accepted, nwritten, saved, ret, exit, ghosts>>

\* lines 178-184: the dialog opens at basepath and the user picks any folder
\* or cancels.  dctitle, foldname and basepath are not read after line 179
\* and are dropped from the state here.
Dialog ==
    /\ pc = "dialog"
    /\ \E chosen \in {NoPath, DestD, NotDir} :
          /\ foldpath' = chosen
          /\ IF chosen = NoPath
             THEN Return(0, "cancel")
             ELSE /\ pc' = "isdir"
                  /\ UNCHANGED <<ret, exit>>
    /\ dctitle' = <<>>
    /\ foldname' = <<>>
    /\ basepath' = <<>>
    /\ UNCHANGED <<tree, storedPrefs, accepted, nwritten, saved, ghosts>>

\* lines 192-194
IsDirCheck ==
    /\ pc = "isdir"
    /\ IF ~isdir(foldpath)
       THEN Return(-1, "notdir")
       ELSE /\ pc' = "validate"
            /\ UNCHANGED <<ret, exit>>
    /\ UNCHANGED <<tree, storedPrefs, locals, accepted, nwritten, saved, ghosts>>

\* variant: the copy starts without the check
DestinationCheckSkipped ==
    /\ pc = "validate"
    /\ pc' = "manifest"
    /\ UNCHANGED <<tree, storedPrefs, locals, accepted, nwritten, saved, ret, exit, ghosts>>

\* lines 196-198
DestinationCheck ==
    /\ pc = "validate"
    /\ \E listing \in walk_folder(FilesOf(tree)) :
          IF ~valid_destination(listing)
          THEN /\ Return(-1, "invalid")
               /\ UNCHANGED accepted
          ELSE /\ pc' = "manifest"
               /\ accepted' = TRUE
               /\ UNCHANGED <<ret, exit>>
    /\ UNCHANGED <<tree, storedPrefs, locals, nwritten, saved, ghosts>>

\* variant: the handler does not return
RaiseSwallowed(t) ==
    /\ tree' = t
    /\ pc' = "saveprefs"
    /\ exit' = "ioerror"
    /\ UNCHANGED <<ret, nwritten>>

\* lines 208-211: an exception anywhere in the try block, the tree left as t
Raise(t) ==
    /\ tree' = t
    /\ Return(-1, "ioerror")
    /\ UNCHANGED nwritten

\* one file of the copy: written, or an exception before the file is opened
\* (reading the data, os.makedirs, open, for whatever reason: a file where a
\* directory is needed, permissions, ...), or an exception once it is open.
\* Directories are not part of the tree, so those os.makedirs made stay unseen.
WriteOrRaise(path, bytes) ==
    \/ /\ tree' = write_file(tree, path, bytes)
       /\ nwritten' = nwritten + 1
       /\ UNCHANGED <<pc, ret, exit>>
    \/ Raise(tree)
    \/ Raise(write_interrupted(tree, path))

\* lines 110-121: one turn of the loop over bk._w.id_to_filepath
CopyManifest ==
    /\ pc = "manifest"
    /\ IF nwritten < Len(book.manifest)
       THEN LET e == book.manifest[nwritten + 1]
            IN  WriteOrRaise(e.rpath, utf8_str(e.data))
       ELSE /\ pc' = "aux"
            /\ UNCHANGED <<tree, nwritten, ret, exit>>
    /\ UNCHANGED <<storedPrefs, locals, accepted, saved, ghosts>>

\* lines 123-134: one turn of the loop over bk._w.book_href_to_filepath
CopyAux ==
    /\ pc = "aux"
    /\ IF nwritten - Len(book.manifest) < Len(book.aux)
       THEN LET e == book.aux[nwritten - Len(book.manifest) + 1]
            IN  WriteOrRaise(e.rpath, utf8_str(e.data))
       ELSE /\ pc' = "mimetype"
            /\ UNCHANGED <<tree, nwritten, ret, exit>>
    /\ UNCHANGED <<storedPrefs, locals, accepted, saved, ghosts>>

\* lines 203-206
WriteMimetype ==
    /\ pc = "mimetype"
    /\ \/ /\ tree' = write_file(tree, MimePath, encode(MimeText))
          /\ nwritten' = nwritten + 1
          /\ pc' = "saveprefs"
          /\ UNCHANGED <<ret, exit>>
       \/ Raise(tree)
       \/ Raise(write_interrupted(tree, MimePath))
    /\ UNCHANGED <<storedPrefs, locals, accepted, saved, ghosts>>

\* lines 214-218
SavePrefs ==
    /\ pc = "saveprefs"
    /\ storedPrefs' = dirname(foldpath)
    /\ saved' = TRUE
    /\ Return(0, "ok")
    /\ UNCHANGED <<tree, locals, accepted, nwritten, ghosts>>

\* the host launches the plugin again on the same book
RunAgain ==
    /\ pc = "done"
    /\ runs < MaxRuns
    /\ pc' = "start"
    /\ runs' = runs + 1
    /\ prevOk' = (exit = "ok")
    /\ tree0' = tree
    /\ prefs0' = storedPrefs
    /\ dctitle' = <<>>
    /\ foldname' = <<>>
    /\ basepath' = <<>>
    /\ foldpath' = NoPath
    /\ accepted' = FALSE
    /\ nwritten' = 0
    /\ saved' = FALSE
    /\ ret' = 0
    /\ exit' = "none"
    /\ UNCHANGED <<book, tree, storedPrefs>>

(***************************************************************************)
(* The three specifications.  Each leaves the other parts' variables at    *)
(* their idle values.                                                      *)
(***************************************************************************)
IdleClean == cpc = "idle" /\ name = <<>> /\ one = <<>> /\ two = <<>>
IdleValid == vpc = "idle" /\ vfiles = {} /\ files = <<>> /\ vret = TRUE
IdleRun ==
    /\ pc = "idle" /\ runs = 0 /\ book = [manifest |-> <<>>, aux |-> <<>>]
    /\ tree = [p \in RelPaths |-> NoFile] /\ storedPrefs = NoPref
    /\ dctitle = <<>> /\ foldname = <<>> /\ basepath = <<>> /\ foldpath = NoPath
    /\ accepted = FALSE /\ nwritten = 0 /\ saved = FALSE /\ ret = 0
    /\ exit = "none" /\ tree0 = tree /\ prefs0 = NoPref /\ prevOk = FALSE

Init == InitRun /\ IdleClean /\ IdleValid

Next ==
    \/ (VersionCheck /\ UNCHANGED <<cvars, vvars>>)
    \/ (PrefsAndTitle /\ UNCHANGED <<cvars, vvars>>)
    \/ (Dialog /\ UNCHANGED <<cvars, vvars>>)
    \/ (IsDirCheck /\ UNCHANGED <<cvars, vvars>>)
    \/ (DestinationCheck /\ UNCHANGED <<cvars, vvars>>)
    \/ (CopyManifest /\ UNCHANGED <<cvars, vvars>>)
    \/ (CopyAux /\ UNCHANGED <<cvars, vvars>>)
    \/ (WriteMimetype /\ UNCHANGED <<cvars, vvars>>)
    \/ (SavePrefs /\ UNCHANGED <<cvars, vvars>>)
    \/ (RunAgain /\ UNCHANGED <<cvars, vvars>>)

Spec == Init /\ [][Next]_vars

InitC == InitClean /\ IdleValid /\ IdleRun

NextC ==
    \/ (Cleanup /\ UNCHANGED <<vvars, rvars>>)
    \/ (CleanupAgain /\ UNCHANGED <<vvars, rvars>>)

SpecClean == InitC /\ [][NextC]_vars

InitV == InitValid /\ IdleClean /\ IdleRun

NextV ==
    \/ (Walk /\ UNCHANGED <<cvars, rvars>>)
    \/ (Validate /\ UNCHANGED <<cvars, rvars>>)

SpecValid == InitV /\ [][NextV]_vars

(***************************************************************************)
(* The claims.                                                             *)
(***************************************************************************)
\* the writes of a complete copy, in order: manifest, auxiliary, mimetype
WriteList(b) ==
    [i \in 1..Len(b.manifest) |->
        [rpath |-> b.manifest[i].rpath, raw |-> utf8_str(b.manifest[i].data).raw]]
    \o [i \in 1..Len(b.aux) |->
        [rpath |-> b.aux[i].rpath, raw |-> utf8_str(b.aux[i].data).raw]]
    \o <<[rpath |-> MimePath, raw |-> MimeText]>>

\* tree t with the writes laid over it in order
RECURSIVE Override(_, _)
Override(t, writes) ==
    IF writes = <<>> THEN t
    ELSE Override([t EXCEPT ![Head(writes).rpath] = Head(writes).raw], Tail(writes))

PathsOf(writes) == {writes[i].rpath : i \in 1..Len(writes)}

HasMetaInf(p) == \E i \in 1..Len(p) : p[i] \in {"META-INF", "meta-inf"}
HasDescriptor(p) == \E i \in 1..Len(p) : p[i] \in {"encryption.xml", "ENCRYPTION.XML"}

\* C1: every early exit of run() (launcher too old: -1, dialog cancelled: 0,
\* not a directory: -1, destination refused: -1) leaves the folder's files and
\* the stored preference as they were and does not call savePrefs; and no file
\* is written before valid_destination has accepted the folder.
C1_EarlyExitsChangeNothing ==
    /\ (pc = "done" /\ exit \in {"version", "notdir", "invalid"}) => ret = -1
    /\ (pc = "done" /\ exit = "cancel") => ret = 0
    /\ (pc = "done" /\ exit \in {"version", "cancel", "notdir", "invalid"})
          => (tree = tree0 /\ storedPrefs = prefs0 /\ ~saved /\ nwritten = 0)
    /\ (nwritten > 0 \/ tree # tree0)
          => (accepted /\ \A p \in FilesOf(tree0) : ~(HasMetaInf(p) /\ HasDescriptor(p)))
    /\ (saved \/ storedPrefs # prefs0) => (pc = "done" /\ exit = "ok")

C1_Witness ==
    /\ pc = "done" /\ exit = "invalid"
    /\ Len(book.manifest) > 0 /\ Len(book.aux) > 0
    /\ tree0[MimePath] = NoFile

\* C2 (as claimed): after a run that copied and returned 0, every manifest and
\* auxiliary entry is at its relative path with exactly the bytes returned for
\* it, mimetype holds application/epub+zip, and every file that was there at a
\* path of no entry is unchanged.
C2_EveryEntryHoldsItsBytes ==
    (pc = "done" /\ exit = "ok") =>
        LET w == WriteList(book)
        IN  /\ ret = 0
            /\ \A i \in 1..Len(w) : tree[w[i].rpath] = w[i].raw
            /\ \A p \in RelPaths \ PathsOf(w) : tree[p] = tree0[p]

\* C2 (amended): the folder is the tree before the run with the writes laid
\* over it in order, so a path holds the bytes of the last write to it: an
\* entry holds its own bytes unless a later entry, or mimetype, has its path.
C2_LastWriteWins ==
    (pc = "done" /\ exit = "ok") =>
        LET w == WriteList(book)
        IN  /\ ret = 0
            /\ nwritten = Len(w)
            /\ tree = Override(tree0, w)
            /\ tree[MimePath] = MimeText
            /\ \A i \in 1..Len(w) :
                  (\A j \in (i + 1)..Len(w) : w[j].rpath # w[i].rpath)
                      => tree[w[i].rpath] = w[i].raw
            /\ \A p \in RelPaths \ PathsOf(w) : tree[p] = tree0[p]

C2_Witness ==
    /\ pc = "done" /\ exit = "ok"
    /\ LET w == WriteList(book)
       IN  /\ \E i, j \in 1..Len(w) : i < j /\ w[i].rpath = w[j].rpath /\ w[i].raw # w[j].raw
           /\ \E p \in PathsOf(w) : tree0[p] = "old" /\ tree[p] # "old"
           /\ \E p \in RelPaths \ PathsOf(w) : tree0[p] = "old" /\ tree[p] = "old"

\* C3 (as claimed): after an I/O failure at the k-th write run() returns -1
\* without saving the preference, nothing later is written, and every file
\* written before the failure still holds what was written.
C3_WrittenFilesRemain ==
    (exit = "ioerror") =>
        LET w == WriteList(book)
            before == Override(tree0, SubSeq(w, 1, nwritten))
            failing == w[nwritten + 1].rpath
        IN  /\ pc = "done" /\ ret = -1
            /\ ~saved /\ storedPrefs = prefs0
            /\ \A p \in PathsOf(SubSeq(w, 1, nwritten)) : tree[p] = before[p]
            /\ \A p \in RelPaths \ (PathsOf(SubSeq(w, 1, nwritten)) \cup {failing}) :
                  tree[p] = tree0[p]

\* C3 (amended): as claimed, except at the path of the file being written when
\* the failure occurred: that file is as before the k-th write or holds an
\* incomplete write, even when an earlier write of this run was to that path.
C3_FailureAborts ==
    (exit = "ioerror") =>
        LET w == WriteList(book)
            before == Override(tree0, SubSeq(w, 1, nwritten))
            failing == w[nwritten + 1].rpath
        IN  /\ pc = "done" /\ ret = -1
            /\ ~saved /\ storedPrefs = prefs0
            /\ nwritten < Len(w)
            /\ \A p \in RelPaths \ {failing} : tree[p] = before[p]
            /\ tree[failing] \in {before[failing], Partial}

C3_Witness ==
    /\ pc = "done" /\ exit = "ioerror" /\ ret = -1
    /\ nwritten = 1
    /\ LET w == WriteList(book)
       IN  /\ Len(w) = 3
           /\ w[1].rpath # w[2].rpath
           /\ tree[w[1].rpath] = w[1].raw
           /\ tree[w[2].rpath] = Partial
           /\ tree[MimePath] = NoFile

\* C8: the folder name run() joins to the base directory is never empty: a
\* title that cleans to nothing gets the fallback name.
C8_FolderNameNeverEmpty ==
    (pc = "dialog") =>
        /\ foldname # <<>>
        /\ (cleanup_file_name(dctitle) = <<>> => foldname = foldername)

\* C10 (as claimed): when the previous run copied the book into the folder and
\* returned 0, a run that selects the folder again is accepted and, if the copy
\* completes, returns 0 and leaves every file as it was.
C10_SecondExportAccepted ==
    (prevOk /\ pc = "done" /\ foldpath = DestD) =>
        /\ exit \in {"ok", "ioerror"}
        /\ exit = "ok" => (ret = 0 /\ tree = tree0)

BookHasDescriptorPath ==
    \E p \in PathsOf(WriteList(book)) : HasMetaInf(p) /\ HasDescriptor(p)

\* C10 (amended): the same, for a book none of whose relative paths has both a
\* segment META-INF or meta-inf and a segment encryption.xml or ENCRYPTION.XML.
C10_SecondExportAcceptedWithoutDescriptor ==
    (prevOk /\ ~BookHasDescriptorPath) =>
        /\ (pc \in {"manifest", "aux", "mimetype", "saveprefs"}) => accepted
        /\ (pc = "done" /\ foldpath = DestD) =>
              /\ exit \in {"ok", "ioerror"}
              /\ exit = "ok" => (ret = 0 /\ tree = tree0)

C10_Witness ==
    /\ prevOk /\ ~BookHasDescriptorPath
    /\ pc = "done" /\ exit = "ok" /\ foldpath = DestD
    /\ Len(book.manifest) > 0 /\ Len(book.aux) > 0
    /\ tree = tree0

\* ---- valid_destination
AnyCaseMetaInf == {"META-INF", "meta-inf", "Meta-Inf"}
AnyCaseDescriptor == {"encryption.xml", "ENCRYPTION.XML", "Encryption.xml"}

\* C4: valid_destination returns False for every folder with a file
\* META-INF/encryption.xml, the two names in any letter case, and True for
\* every folder without one.
C4_AnyCaseDescriptorRejected ==
    (vpc = "done") =>
        (vret = FALSE <=>
            \E p \in vfiles : Len(p) = 2 /\ p[1] \in AnyCaseMetaInf /\ p[2] \in AnyCaseDescriptor)

\* C5 (as claimed): the folder is refused as soon as some file's path has a
\* segment META-INF or meta-inf, or some file's path has a segment
\* encryption.xml or ENCRYPTION.XML.
C5_EitherConditionRefuses ==
    (vpc = "done") =>
        (((\E p \in vfiles : HasMetaInf(p)) \/ (\E p \in vfiles : HasDescriptor(p)))
            => vret = FALSE)

\* C5 (amended): the folder is refused exactly when one file's path has both
\* a segment META-INF or meta-inf and a segment encryption.xml or
\* ENCRYPTION.XML.
C5_BothOnOnePathRefuses ==
    (vpc = "done") =>
        (vret = FALSE <=> \E p \in vfiles : HasMetaInf(p) /\ HasDescriptor(p))

C5_Witness ==
    /\ vpc = "done" /\ vret = TRUE
    /\ \E p, q \in vfiles : HasMetaInf(p) /\ HasDescriptor(q)

\* ---- cleanup_file_name
\* C6: cleanup_file_name applied to its own result changes nothing.
C6_Idempotent == (cpc = "twice") => two = one

C6_Witness ==
    /\ cpc = "twice" /\ two = one
    /\ one # name /\ Len(one) > 1
    /\ \E i \in 1..(Len(name) - 1) : name[i] = DOT /\ name[i + 1] = DOT

ForbiddenInNames == {92, 124, 63, 42, 60, 34, 58, 62, 43, 47}

\* C7: the result of cleanup_file_name has only printable ASCII characters,
\* none of \ | ? * < " : > + / and no whitespace, has no '..', neither starts
\* nor ends with '.', and is not made only of dots.
C7_SafeComponent ==
    (cpc = "once") =>
        /\ \A i \in 1..Len(one) :
              /\ one[i] \in string_printable
              /\ one[i] \notin ForbiddenInNames
              /\ one[i] \notin regex_whitespace
        /\ \A i \in 1..(Len(one) - 1) : ~(one[i] = DOT /\ one[i + 1] = DOT)
        /\ one # <<>> => (one[1] # DOT /\ one[Len(one)] # DOT)
        /\ ~AllDots(one)

C7_Witness ==
    /\ cpc = "once"
    /\ Len(name) = MaxLen /\ name[1] = DOT /\ name[Len(name)] = DOT
    /\ \E i \in 1..Len(name) : name[i] \notin string_printable
    /\ \E i \in 1..Len(name) : name[i] \in regex_whitespace
    /\ Len(one) = Len(name) - 1
    /\ one[1] = substitute /\ one[Len(one)] = substitute

Count(s, c) == Cardinality({i \in 1..Len(s) : s[i] = c})

\* maximal runs of whitespace in s
WhitespaceRuns(s) ==
    Cardinality({i \in 1..Len(s) :
        s[i] \in regex_whitespace /\ (i = 1 \/ s[i - 1] \notin regex_whitespace)})

NoDot(s) == \A i \in 1..Len(s) : s[i] # DOT

\* C9 (as claimed): a maximal run of k whitespace characters puts one '_' in
\* the result (names without dots, so that no later step adds a '_').
C9_RunGivesOneUnderscore ==
    (cpc = "once" /\ NoDot(name)) =>
        LET s == sanitize_sub(drop_nonprintable(name))
        IN  Count(one, substitute) = Count(s, substitute) + WhitespaceRuns(s)

\* C9 (amended): every whitespace character becomes its own '_', so a run of
\* k puts k of them in the result.
C9_EachWhitespaceGivesUnderscore ==
    (cpc = "once") =>
        LET s == sanitize_sub(drop_nonprintable(name))
            t == whitespace_sub(s)
        IN  /\ Len(t) = Len(s)
            /\ \A i \in 1..Len(s) :
                  t[i] = (IF s[i] \in regex_whitespace THEN substitute ELSE s[i])
            /\ NoDot(name) =>
                  /\ one = t
                  /\ Count(one, substitute) =
                        Count(s, substitute)
                        + Cardinality({i \in 1..Len(s) : s[i] \in regex_whitespace})

C9_Witness ==
    /\ cpc = "once" /\ NoDot(name)
    /\ \E i \in 1..(Len(name) - 2) :
          /\ name[i] \in regex_whitespace /\ name[i + 1] \in regex_whitespace
          /\ name[i + 2] \notin regex_whitespace
          /\ one[i] = substitute /\ one[i + 1] = substitute
    /\ Len(one) < Len(name)

=============================================================================
